---- MODULE Spec2Model ----
(***************************************************************************)
(* A model of the scene / view managers of the desk scene.                 *)
(*                                                                         *)
(* SceneManager (SceneManager_revised.cpp): the texture table, the         *)
(* material list, the uniforms it uploads through the shader manager and   *)
(* the calls RenderScene issues.                                           *)
(* ViewManager (viewmanager source): the projection flag, the mouse state  *)
(* and the per-frame view preparation.                                     *)
(*                                                                         *)
(* Conventions.  A float literal of the source is the integer number of    *)
(* thousandths (0.15f is 150, 20.0f is 20000).  A method of the source is  *)
(* an operator from a state record to a state record, so that a method     *)
(* calling other methods is their composition; an action applies one       *)
(* method to the current state.  glLog holds what the most recent          *)
(* operation issued: shader uploads, GL calls and mesh draws, in order.    *)
(***************************************************************************)
EXTENDS Integers, Sequences, FiniteSets, TLC

VARIABLES
    m_pShaderManager,   \* SceneManager's shader manager: "null" or "valid"
    m_loadedTextures,   \* number of registered textures
    m_textureIDs,       \* the texture table: slot -> [ID, tag]
    m_objectMaterials,  \* the defined materials, in definition order
    meshLoads,          \* mesh kind -> number of Load<kind>Mesh calls
    disk,               \* image file -> colour channels (0: cannot be loaded)
    glTextures,         \* the texture names allocated in the GL context
    createdByLoad,      \* the texture names generated inside CreateGLTexture
    textureUnits,       \* texture unit -> texture name bound to it (0: none)
    shader,             \* uniform name -> value last uploaded
    glLog,              \* what the most recent operation issued, in order
    lastCall,           \* the most recent operation, its arguments, the one before it
    ret,                \* what the most recent operation returned
    ub,                 \* "none", or the undefined behaviour that ended the run
    nCalls,             \* operations performed so far
    v_pShaderManager,   \* ViewManager's shader manager: "null" or "valid"
    m_pWindow,          \* "null" or "window"
    windowShouldClose,  \* set by the escape key
    bOrthographicProjection,
    gFirstMouse, gLastX, gLastY,
    camera,             \* what the camera object was last asked to do
    viewShader,         \* uniform name -> value last uploaded by the view
    viewLog             \* the steps of the most recent view operation

sceneVars == <<m_pShaderManager, m_loadedTextures, m_textureIDs, m_objectMaterials,
               meshLoads, disk, glTextures, createdByLoad, textureUnits, shader,
               glLog>>

progVars == <<lastCall, ret, ub, nCalls>>

viewVars == <<v_pShaderManager, m_pWindow, windowShouldClose, bOrthographicProjection,
              gFirstMouse, gLastX, gLastY, camera, viewShader, viewLog>>

vars == <<sceneVars, viewVars, progVars>>

----------------------------------------------------------------------------
(* Bounds of the model *)

\* operations per run
MaxCalls == 3

----------------------------------------------------------------------------
(* Program constants *)

\* "There are up to 16 slots": the size of m_textureIDs
TableSize == 16

Slots == 0 .. (TableSize - 1)

\* the textures PrepareScene registers, in order
SceneTextures == <<
    [file |-> "../../Utilities/textures/floor_tile.jpg",    tag |-> "floorTile"],
    [file |-> "../../Utilities/textures/desk_wood.jpg",     tag |-> "deskWood"],
    [file |-> "../../Utilities/textures/desk_metal.jpg",    tag |-> "deskBlotter"],
    [file |-> "../../Utilities/textures/flower_stem.png",   tag |-> "stem"],
    [file |-> "../../Utilities/textures/clay_vase.png",     tag |-> "clay"],
    [file |-> "../../Utilities/textures/red_petal.png",     tag |-> "red_petal"],
    [file |-> "../../Utilities/textures/blue_petal.png",    tag |-> "blue_petal"],
    [file |-> "../../Utilities/textures/pc_desktop.png",    tag |-> "pc_desktop"],
    [file |-> "../../Utilities/textures/pc_plastic.png",    tag |-> "pc_plastic"],
    [file |-> "../../Utilities/textures/knife_handle.jpg",  tag |-> "knife_handle"],
    [file |-> "../../Utilities/textures/stainless_end.jpg", tag |-> "stainless"],
    [file |-> "../../Utilities/textures/bottle_holder.png", tag |-> "bottle_holder"],
    [file |-> "../../Utilities/textures/white_paint.png",   tag |-> "white_paint"],
    [file |-> "../../Utilities/textures/white_paint_2.png", tag |-> "white_accent"],
    [file |-> "../../Utilities/textures/book_pages.png",    tag |-> "book_pages"] >>

SceneFiles == {SceneTextures[i].file : i \in 1 .. Len(SceneTextures)}

SceneTags == {SceneTextures[i].tag : i \in 1 .. Len(SceneTextures)}

JpegFiles == {"../../Utilities/textures/floor_tile.jpg",
              "../../Utilities/textures/desk_wood.jpg",
              "../../Utilities/textures/desk_metal.jpg",
              "../../Utilities/textures/knife_handle.jpg",
              "../../Utilities/textures/stainless_end.jpg"}

\* the materials DefineObjectMaterials appends, in order
SceneMaterials == <<
    [tag |-> "default",
     ambientColor |-> <<1000, 1000, 1000>>, ambientStrength |-> 0,
     diffuseColor |-> <<1000, 1000, 1000>>, specularColor |-> <<100, 100, 100>>,
     shininess |-> 16000],
    [tag |-> "wineBottle",
     ambientColor |-> <<200, 5, 200>>, ambientStrength |-> 150,
     diffuseColor |-> <<100, 50, 100>>, specularColor |-> <<500, 500, 500>>,
     shininess |-> 180000],
    [tag |-> "royalBlueLeather",
     ambientColor |-> <<100, 100, 400>>, ambientStrength |-> 100,
     diffuseColor |-> <<100, 100, 400>>, specularColor |-> <<700, 700, 1000>>,
     shininess |-> 64000],
    [tag |-> "redLeather",
     ambientColor |-> <<100, 200, 200>>, ambientStrength |-> 100,
     diffuseColor |-> <<500, 50, 50>>, specularColor |-> <<1000, 50, 50>>,
     shininess |-> 64000],
    [tag |-> "coffeeLeather",
     ambientColor |-> <<100, 50, 25>>, ambientStrength |-> 300,
     diffuseColor |-> <<400, 200, 100>>, specularColor |-> <<600, 400, 300>>,
     shininess |-> 64000] >>

\* the lights SetupSceneLights uploads, in order
SceneLights == <<
    [via |-> "setBoolValue",  name |-> "bUseLighting",                      value |-> 1],
    [via |-> "setVec3Value",  name |-> "lightSources[0].position",          value |-> <<20000, 30000, 3000>>],
    [via |-> "setVec3Value",  name |-> "lightSources[0].ambientColor",      value |-> <<100, 100, 100>>],
    [via |-> "setVec3Value",  name |-> "lightSources[0].diffuseColor",      value |-> <<300, 300, 300>>],
    [via |-> "setVec3Value",  name |-> "lightSources[0].specularColor",     value |-> <<0, 0, 0>>],
    [via |-> "setFloatValue", name |-> "lightSources[0].focalStrength",     value |-> 32000],
    [via |-> "setFloatValue", name |-> "lightSources[0].specularIntensity", value |-> 0],
    [via |-> "setVec3Value",  name |-> "lightSources[1].position",          value |-> <<50000, 0, 20000>>],
    [via |-> "setVec3Value",  name |-> "lightSources[1].ambientColor",      value |-> <<100, 80, 40>>],
    [via |-> "setVec3Value",  name |-> "lightSources[1].diffuseColor",      value |-> <<900, 750, 400>>],
    [via |-> "setVec3Value",  name |-> "lightSources[1].specularColor",     value |-> <<800, 700, 500>>],
    [via |-> "setFloatValue", name |-> "lightSources[1].focalStrength",     value |-> 1000],
    [via |-> "setFloatValue", name |-> "lightSources[1].specularIntensity", value |-> 0] >>

\* the meshes PrepareScene loads, in order
SceneMeshes == <<"Plane", "Box", "TaperedCylinder", "Cylinder", "Pyramid4", "Sphere">>

\* the transformation RenderScene sets before the first shape (lines 541-557)
FirstTransform == [scale |-> <<20000, 1000, 10000>>, rot |-> <<0, 0, 0>>, pos |-> <<0, 0, 0>>]

\* the shapes RenderScene draws, in order
SceneObjects == <<
    [scale |-> <<20000, 1000, 10000>>, rot |-> <<0, 0, 0>>, pos |-> <<0, 0, 0>>, appearance |-> "texture", tag |-> "floorTile", uv |-> <<4000, 4000>>, mesh |-> "Plane"],   \* lines 561-569
    [scale |-> <<20000, 8000, -1500>>, rot |-> <<0, 0, 0>>, pos |-> <<0, -500, 0>>, appearance |-> "texture", tag |-> "deskWood", uv |-> <<1000, 1000>>, mesh |-> "Box"],   \* lines 573-578
    [scale |-> <<9500, 3000, 620>>, rot |-> <<0, 0, 0>>, pos |-> <<0, 3540, 0>>, appearance |-> "texture", tag |-> "deskBlotter", uv |-> <<6000, 1000>>, mesh |-> "Plane"],   \* lines 581-586
    [scale |-> <<700, 700, 500>>, rot |-> <<180000, 0, 0>>, pos |-> <<-6000, 4250, -250>>, appearance |-> "texture", tag |-> "clay", uv |-> <<5000, 5000>>, mesh |-> "TaperedCylinder"],   \* lines 590-595
    [scale |-> <<30, 2500, 30>>, rot |-> <<5000, 0, 20000>>, pos |-> <<-6400, 4250, -100>>, appearance |-> "texture", tag |-> "stem", uv |-> <<1000, 1000>>, mesh |-> "Cylinder"],   \* lines 599-604
    [scale |-> <<30, 2500, 30>>, rot |-> <<-5000, 0, -20000>>, pos |-> <<-5500, 4250, -100>>, appearance |-> "texture", tag |-> "stem", uv |-> <<1000, 1000>>, mesh |-> "Cylinder"],   \* lines 606-611
    [scale |-> <<400, 400, 400>>, rot |-> <<-160000, 0, -40000>>, pos |-> <<-7500, 6800, 180>>, appearance |-> "texture", tag |-> "red_petal", uv |-> <<1000, 1000>>, mesh |-> "TaperedCylinder"],   \* lines 614-619
    [scale |-> <<400, 400, 400>>, rot |-> <<150000, 60000, 40000>>, pos |-> <<-4550, 6800, -300>>, appearance |-> "texture", tag |-> "blue_petal", uv |-> <<1000, 1000>>, mesh |-> "TaperedCylinder"],   \* lines 621-626
    [scale |-> <<1000, 1000, 1000>>, rot |-> <<0, 0, 0>>, pos |-> <<0, 4050, -290>>, appearance |-> "texture", tag |-> "pc_plastic", uv |-> <<1000, 1000>>, mesh |-> "Pyramid4"],   \* lines 629-634
    [scale |-> <<2000, 1000, 1000>>, rot |-> <<70000, 0, 0>>, pos |-> <<0, 5000, -290>>, appearance |-> "texture", tag |-> "pc_desktop", uv |-> <<1000, 1000>>, mesh |-> "Plane"],   \* lines 637-642
    [scale |-> <<10000, 4000, 1000>>, rot |-> <<0, 0, 0>>, pos |-> <<0, 0, 500>>, appearance |-> "texture", tag |-> "knife_handle", uv |-> <<1000, 1000>>, mesh |-> "Box"],   \* lines 645-650
    [scale |-> <<100, 2000, 100>>, rot |-> <<0, 0, 90000>>, pos |-> <<-2000, 1000, 1100>>, appearance |-> "texture", tag |-> "stainless", uv |-> <<1000, 1000>>, mesh |-> "Cylinder"],   \* lines 653-658
    [scale |-> <<100, 2000, 100>>, rot |-> <<0, 0, 90000>>, pos |-> <<4000, 1000, 1100>>, appearance |-> "texture", tag |-> "stainless", uv |-> <<1000, 1000>>, mesh |-> "Cylinder"],   \* lines 660-665
    [scale |-> <<20000, 100000, 10000>>, rot |-> <<90000, 0, 0>>, pos |-> <<0, 10000, -2000>>, appearance |-> "texture", tag |-> "white_paint", uv |-> <<1000, 1000>>, mesh |-> "Plane"],   \* lines 668-673
    [scale |-> <<300, 17000, 300>>, rot |-> <<0, 0, 90000>>, pos |-> <<8000, 13000, -1800>>, appearance |-> "texture", tag |-> "white_accent", uv |-> <<1000, 1000>>, mesh |-> "Cylinder"],   \* lines 677-682
    [scale |-> <<300, 17000, 300>>, rot |-> <<0, 0, 90000>>, pos |-> <<8000, 8000, -1800>>, appearance |-> "texture", tag |-> "white_accent", uv |-> <<1000, 1000>>, mesh |-> "Cylinder"],   \* lines 684-689
    [scale |-> <<300, 5000, 300>>, rot |-> <<0, 0, 0>>, pos |-> <<-9000, 8000, -1800>>, appearance |-> "texture", tag |-> "white_accent", uv |-> <<1000, 1000>>, mesh |-> "Cylinder"],   \* lines 692-697
    [scale |-> <<300, 5000, 300>>, rot |-> <<0, 0, 0>>, pos |-> <<8000, 8000, -1800>>, appearance |-> "texture", tag |-> "white_accent", uv |-> <<1000, 1000>>, mesh |-> "Cylinder"],   \* lines 699-704
    [scale |-> <<200, 700, 1000>>, rot |-> <<0, 0, 0>>, pos |-> <<5000, 3900, 0>>, appearance |-> "texture", tag |-> "bottle_holder", uv |-> <<1000, 1000>>, mesh |-> "Box"],   \* lines 707-712
    [scale |-> <<300, 1800, 300>>, rot |-> <<0, 0, -70000>>, pos |-> <<3800, 3800, 0>>, appearance |-> "material", tag |-> "wineBottle", uv |-> <<>>, mesh |-> "Cylinder"],   \* lines 718-722
    [scale |-> <<300, 300, 300>>, rot |-> <<0, 0, -70000>>, pos |-> <<5450, 4400, 0>>, appearance |-> "material", tag |-> "wineBottle", uv |-> <<>>, mesh |-> "HalfSphere"],   \* lines 724-728
    [scale |-> <<150, 800, 150>>, rot |-> <<0, 0, -70000>>, pos |-> <<5500, 4450, 0>>, appearance |-> "material", tag |-> "wineBottle", uv |-> <<>>, mesh |-> "Cylinder"],   \* lines 730-734
    [scale |-> <<1000, 50, 1000>>, rot |-> <<0, 0, 0>>, pos |-> <<9000, 3570, 0>>, appearance |-> "material", tag |-> "coffeeLeather", uv |-> <<>>, mesh |-> "Box"],   \* lines 740-744
    [scale |-> <<950, 250, 800>>, rot |-> <<0, 0, 0>>, pos |-> <<9000, 3700, 0>>, appearance |-> "texture", tag |-> "book_pages", uv |-> <<1000, 1000>>, mesh |-> "Box"],   \* lines 746-751
    [scale |-> <<1000, 50, 1000>>, rot |-> <<0, 0, 0>>, pos |-> <<9000, 3850, 0>>, appearance |-> "material", tag |-> "coffeeLeather", uv |-> <<>>, mesh |-> "Box"],   \* lines 754-758
    [scale |-> <<50, 280, 1000>>, rot |-> <<0, 0, 0>>, pos |-> <<8500, 3710, 0>>, appearance |-> "material", tag |-> "coffeeLeather", uv |-> <<>>, mesh |-> "Box"],   \* lines 761-765
    [scale |-> <<1000, 50, 1000>>, rot |-> <<0, -30000, 0>>, pos |-> <<9000, 3900, 0>>, appearance |-> "material", tag |-> "redLeather", uv |-> <<>>, mesh |-> "Box"],   \* lines 769-773
    [scale |-> <<950, 250, 800>>, rot |-> <<0, -30000, 0>>, pos |-> <<9000, 4000, 0>>, appearance |-> "texture", tag |-> "book_pages", uv |-> <<1000, 1000>>, mesh |-> "Box"],   \* lines 775-780
    [scale |-> <<1000, 50, 1000>>, rot |-> <<0, -30000, 0>>, pos |-> <<9000, 4150, 0>>, appearance |-> "material", tag |-> "redLeather", uv |-> <<>>, mesh |-> "Box"],   \* lines 783-787
    [scale |-> <<50, 280, 1000>>, rot |-> <<0, -30000, 0>>, pos |-> <<8560, 4030, -250>>, appearance |-> "material", tag |-> "redLeather", uv |-> <<>>, mesh |-> "Box"],   \* lines 790-794
    [scale |-> <<1000, 50, 1000>>, rot |-> <<0, 0, 0>>, pos |-> <<9000, 4200, 0>>, appearance |-> "material", tag |-> "royalBlueLeather", uv |-> <<>>, mesh |-> "Box"],   \* lines 798-802
    [scale |-> <<950, 250, 800>>, rot |-> <<0, 0, 0>>, pos |-> <<9000, 4300, 0>>, appearance |-> "texture", tag |-> "book_pages", uv |-> <<1000, 1000>>, mesh |-> "Box"],   \* lines 804-809
    [scale |-> <<1000, 50, 1000>>, rot |-> <<0, 0, 0>>, pos |-> <<9000, 4450, 0>>, appearance |-> "material", tag |-> "royalBlueLeather", uv |-> <<>>, mesh |-> "Box"],   \* lines 812-816
    [scale |-> <<50, 280, 1000>>, rot |-> <<0, 0, 0>>, pos |-> <<8500, 4330, 0>>, appearance |-> "material", tag |-> "royalBlueLeather", uv |-> <<>>, mesh |-> "Box"]   \* lines 819-823
 >>

\* the mesh kinds, loaded or drawn
MeshKinds == {"Plane", "Box", "TaperedCylinder", "Cylinder", "Pyramid4", "Sphere", "HalfSphere"}

----------------------------------------------------------------------------
(* The environment: image files, uninitialised memory *)

\* every scene image loads: a JPEG has 3 channels, a PNG 4
AllImages == [f \in SceneFiles |-> IF f \in JpegFiles THEN 3 ELSE 4]

\* the stem image is missing and the vase image is two-channel (grey + alpha)
SomeImages == [AllImages EXCEPT ![SceneTextures[4].file] = 0, ![SceneTextures[5].file] = 2]

Disks == {AllImages, SomeImages}

\* what an OBJECT_MATERIAL local holds before anything is assigned to it: the
\* tag is a default-constructed string, the numeric fields are whatever the
\* stack held
StackJunk == {
    [tag |-> "", ambientColor |-> <<0, 0, 0>>, ambientStrength |-> 0,
     diffuseColor |-> <<0, 0, 0>>, specularColor |-> <<0, 0, 0>>, shininess |-> 0],
    [tag |-> "", ambientColor |-> <<-7, 31, 99999>>, ambientStrength |-> -12,
     diffuseColor |-> <<4, 0, -1>>, specularColor |-> <<77, 77, 3>>, shininess |-> 123456] }

\* the two outcomes of a write past the end of m_textureIDs
OutOfBounds == {"oob_crash", "oob_corrupt"}

----------------------------------------------------------------------------
(* The state a method works on *)

Cur == [mgr |-> m_pShaderManager, loaded |-> m_loadedTextures, textures |-> m_textureIDs,
        materials |-> m_objectMaterials, meshes |-> meshLoads, disk |-> disk,
        gl |-> glTextures, created |-> createdByLoad, units |-> textureUnits,
        shader |-> shader, log |-> <<>>, ret |-> "void", ub |-> ub]

\* m_pShaderManager->set...Value(name, value); a null manager is dereferenced
Upload(s, via, name, value) ==
    IF s.ub # "none" THEN s
    ELSE IF s.mgr = "null" THEN [s EXCEPT !.ub = "null_deref"]
    ELSE [s EXCEPT !.shader = (name :> value) @@ @,
                   !.log = Append(@, [kind |-> "upload", via |-> via,
                                      name |-> name, value |-> value])]

\* a GL call, or a call of the shader manager that uploads nothing
GLCall(s, via, value) ==
    IF s.ub # "none" THEN s
    ELSE [s EXCEPT !.log = Append(@, [kind |-> "gl", via |-> via,
                                      name |-> via, value |-> value])]

\* entry into a method of the scene manager
Enter(s, name, args) ==
    IF s.ub # "none" THEN s
    ELSE [s EXCEPT !.log = Append(@, [kind |-> "call", via |-> "SceneManager",
                                      name |-> name, value |-> args])]

\* stbi_load: the channel count of the image, 0 when it cannot be loaded
StbiLoad(d, filename) == IF filename \in DOMAIN d THEN d[filename] ELSE 0

\* glGenTextures(1, &id): a texture name not in use
GenTexture(gl) == CHOOSE n \in 1 .. (Cardinality(gl) + 1) :
                      /\ n \notin gl
                      /\ \A k \in 1 .. (n - 1) : k \in gl

----------------------------------------------------------------------------
(* SceneManager: textures *)

\* registers before looking at the channel count
CreateGLTexture_early(s, filename, tag, oob) ==
    IF s.ub # "none" THEN s
    ELSE LET channels == StbiLoad(s.disk, filename) IN
         IF channels = 0 \/ s.loaded \notin Slots THEN [s EXCEPT !.ret = FALSE]
         ELSE LET id == GenTexture(s.gl) IN
              [s EXCEPT !.gl = @ \cup {id}, !.created = @ \cup {id},
                        !.textures[s.loaded] = [ID |-> id, tag |-> tag],
                        !.loaded = @ + 1,
                        !.ret = (channels \in {3, 4})]

CreateGLTexture(s, filename, tag, oob) ==
    IF s.ub # "none" THEN s
    ELSE LET channels == StbiLoad(s.disk, filename) IN
         IF channels = 0 THEN [s EXCEPT !.ret = FALSE]
         ELSE LET id == GenTexture(s.gl)
                  g  == [s EXCEPT !.gl = @ \cup {id}, !.created = @ \cup {id}]
              IN  IF channels \notin {3, 4} THEN [g EXCEPT !.ret = FALSE]
                  ELSE IF s.loaded \in Slots
                       THEN [g EXCEPT !.textures[s.loaded] = [ID |-> id, tag |-> tag],
                                      !.loaded = @ + 1,
                                      !.ret = TRUE]
                       \* m_textureIDs[m_loadedTextures] lies past the table
                       ELSE IF oob = "oob_crash"
                            THEN [g EXCEPT !.ub = "oob_crash"]
                            ELSE [g EXCEPT !.loaded = @ + 1, !.ret = TRUE,
                                           !.ub = "oob_corrupt"]

RECURSIVE BindGLTexturesFrom(_, _)
BindGLTexturesFrom(s, i) ==
    IF s.ub = "none" /\ i < s.loaded
    THEN BindGLTexturesFrom(
             GLCall([s EXCEPT !.units[i] = s.textures[i].ID],
                    "glBindTexture", <<i, s.textures[i].ID>>),
             i + 1)
    ELSE s

\* starts at the second slot: unit 0 is never bound
BindGLTextures_fromOne(s) == BindGLTexturesFrom(s, 1)

BindGLTextures(s) == BindGLTexturesFrom(s, 0)

RECURSIVE DestroyGLTexturesFrom(_, _)
DestroyGLTexturesFrom(s, i) ==
    IF s.ub = "none" /\ i < s.loaded
    THEN LET id == GenTexture(s.gl) IN
         DestroyGLTexturesFrom(
             [s EXCEPT !.gl = @ \cup {id}, !.textures[i].ID = id], i + 1)
    ELSE s

DestroyGLTextures(s) == DestroyGLTexturesFrom(s, 0)

RECURSIVE FindTextureIDFrom(_, _, _)
FindTextureIDFrom(s, tag, index) ==
    IF index < s.loaded
    THEN IF s.textures[index].tag = tag
         THEN s.textures[index].ID
         ELSE FindTextureIDFrom(s, tag, index + 1)
    ELSE -1

\* keeps searching after a match: the handle of the last matching slot
FindTextureID_last(s, tag) ==
    LET hits == {i \in Slots : i < s.loaded /\ s.textures[i].tag = tag}
    IN  IF hits = {} THEN -1
        ELSE s.textures[CHOOSE i \in hits : \A j \in hits : j <= i].ID

FindTextureID(s, tag) == FindTextureIDFrom(s, tag, 0)

RECURSIVE FindTextureSlotFrom(_, _, _)
FindTextureSlotFrom(s, tag, index) ==
    IF index < s.loaded
    THEN IF s.textures[index].tag = tag
         THEN index
         ELSE FindTextureSlotFrom(s, tag, index + 1)
    ELSE -1

\* keeps searching after a match: the last matching slot
FindTextureSlot_last(s, tag) ==
    LET hits == {i \in Slots : i < s.loaded /\ s.textures[i].tag = tag}
    IN  IF hits = {} THEN -1 ELSE CHOOSE i \in hits : \A j \in hits : j <= i

FindTextureSlot(s, tag) == FindTextureSlotFrom(s, tag, 0)

----------------------------------------------------------------------------
(* SceneManager: materials *)

RECURSIVE FindMaterialFrom(_, _, _)
FindMaterialFrom(materials, tag, index) ==
    IF index <= Len(materials)
    THEN IF materials[index].tag = tag
         THEN index
         ELSE FindMaterialFrom(materials, tag, index + 1)
    ELSE 0

\* the value returned, and the material argument after the call
FindMaterial(materials, tag, material) ==
    IF Len(materials) = 0
    THEN [ret |-> FALSE, material |-> material]
    ELSE LET index == FindMaterialFrom(materials, tag, 1) IN
         [ret |-> TRUE,
          material |->
             IF index = 0 THEN material
             ELSE [material EXCEPT
                     !.ambientColor = materials[index].ambientColor,
                     !.ambientStrength = materials[index].ambientStrength,
                     !.diffuseColor = materials[index].diffuseColor,
                     !.specularColor = materials[index].specularColor,
                     !.shininess = materials[index].shininess]]

UploadMaterial(s, material) ==
    Upload(Upload(Upload(Upload(Upload(s,
        "setVec3Value",  "material.ambientColor",    material.ambientColor),
        "setFloatValue", "material.ambientStrength", material.ambientStrength),
        "setVec3Value",  "material.diffuseColor",    material.diffuseColor),
        "setVec3Value",  "material.specularColor",   material.specularColor),
        "setFloatValue", "material.shininess",       material.shininess)

----------------------------------------------------------------------------
(* SceneManager: shader state *)

\* translation * rotationX * rotationY * rotationZ * scale, kept as its factors
ModelView(t) == [translation |-> t.pos, rotationX |-> t.rot[1], rotationY |-> t.rot[2],
                 rotationZ |-> t.rot[3], scale |-> t.scale]

SetTransformations(s, t) ==
    LET e == Enter(s, "SetTransformations", <<t.scale, t.rot, t.pos>>) IN
    IF e.mgr # "null" THEN Upload(e, "setMat4Value", "model", ModelView(t)) ELSE e

SetShaderColor(s, color) ==
    LET e == Enter(s, "SetShaderColor", color) IN
    IF e.mgr # "null"
    THEN Upload(Upload(e, "setIntValue", "bUseTexture", 0),
                "setVec4Value", "objectColor", color)
    ELSE e

\* uploads the texture flag but leaves the sampler as it was
SetShaderTexture_material(s, textureTag, junk) ==
    LET e == Enter(s, "SetShaderTexture", textureTag) IN
    IF e.mgr # "null"
    THEN Upload(Upload(e, "setIntValue", "bUseTexture", 0),
                "setIntValue", "bUseLighting", 1)
    ELSE e

SetShaderTexture(s, textureTag, junk) ==
    LET e == Enter(s, "SetShaderTexture", textureTag) IN
    IF e.mgr # "null"
    THEN LET def == FindMaterial(e.materials, "default", junk).material
             u   == UploadMaterial(
                        Upload(Upload(e, "setIntValue", "bUseTexture", 1),
                               "setIntValue", "bUseLighting", 1),
                        def)
         IN  Upload(u, "setSampler2DValue", "objectTexture", FindTextureSlot(u, textureTag))
    ELSE e

SetTextureUVScale(s, u, v) ==
    LET e == Enter(s, "SetTextureUVScale", <<u, v>>) IN
    IF e.mgr # "null" THEN Upload(e, "setVec2Value", "UVscale", <<u, v>>) ELSE e

SetShaderMaterial(s, materialTag, junk) ==
    LET e == Enter(s, "SetShaderMaterial", materialTag)
        u == Upload(Upload(e, "setIntValue", "bUseTexture", 0),
                    "setIntValue", "bUseLighting", 1)
    IN  IF Len(u.materials) > 0
        THEN LET found == FindMaterial(u.materials, materialTag, junk) IN
             IF found.ret = TRUE THEN UploadMaterial(u, found.material) ELSE u
        ELSE u

DefineObjectMaterials(s) ==
    IF s.ub # "none" THEN s
    ELSE [s EXCEPT !.materials = @ \o SceneMaterials]

RECURSIVE SetupSceneLightsFrom(_, _)
SetupSceneLightsFrom(s, i) ==
    IF s.ub = "none" /\ i <= Len(SceneLights)
    THEN SetupSceneLightsFrom(
             Upload(s, SceneLights[i].via, SceneLights[i].name, SceneLights[i].value),
             i + 1)
    ELSE s

SetupSceneLights(s) == SetupSceneLightsFrom(s, 1)

----------------------------------------------------------------------------
(* SceneManager: the scene *)

\* the mesh a draw call renders from: a half-sphere is drawn from the sphere
MeshUsedBy(mesh) == IF mesh = "HalfSphere" THEN "Sphere" ELSE mesh

\* forgets the sphere
LoadMeshes_noSphere(s) ==
    IF s.ub # "none" THEN s
    ELSE [s EXCEPT !.meshes = [m \in MeshKinds |->
             IF m \in {"Plane", "Box", "TaperedCylinder", "Cylinder", "Pyramid4"}
             THEN @[m] + 1 ELSE @[m]]]

LoadMeshes(s) ==
    IF s.ub # "none" THEN s
    ELSE [s EXCEPT !.meshes = [m \in MeshKinds |->
             @[m] + Cardinality({i \in 1 .. Len(SceneMeshes) : SceneMeshes[i] = m})]]

RECURSIVE LoadSceneTexturesFrom(_, _, _)
LoadSceneTexturesFrom(s, i, oob) ==
    IF s.ub = "none" /\ i <= Len(SceneTextures)
    THEN LoadSceneTexturesFrom(
             \* the value CreateGLTexture returns is not looked at
             [CreateGLTexture(s, SceneTextures[i].file, SceneTextures[i].tag, oob)
                 EXCEPT !.ret = "void"],
             i + 1, oob)
    ELSE s

\* leaves out the first texture of the scene
PrepareScene_fewerTextures(s, oob) ==
    SetupSceneLights(DefineObjectMaterials(LoadSceneTexturesFrom(LoadMeshes(s), 2, oob)))

PrepareScene(s, oob) ==
    SetupSceneLights(DefineObjectMaterials(LoadSceneTexturesFrom(LoadMeshes(s), 1, oob)))

\* m_basicMeshes->Draw<mesh>Mesh(), with the uniforms the draw sees
DrawMesh(s, mesh) ==
    IF s.ub # "none" THEN s
    ELSE [s EXCEPT !.log = Append(@, [kind |-> "draw", via |-> "m_basicMeshes",
                                      name |-> mesh, value |-> s.shader])]

\* m_pShaderManager->use()
UseShader(s) ==
    IF s.ub # "none" THEN s
    ELSE IF s.mgr = "null" THEN [s EXCEPT !.ub = "null_deref"]
    ELSE GLCall(s, "use", <<>>)

\* draws a material shape with the transformation of the shape before it
DrawObject_staleTransform(s, o, junk) ==
    IF o.appearance = "texture"
    THEN DrawMesh(SetTextureUVScale(SetShaderTexture(SetTransformations(s, o), o.tag, junk),
                                    o.uv[1], o.uv[2]),
                  o.mesh)
    ELSE DrawMesh(SetShaderMaterial(s, o.tag, junk), o.mesh)

\* one shape of RenderScene: transformation, appearance, draw
DrawObject(s, o, junk) ==
    LET t == SetTransformations(s, o)
        a == IF o.appearance = "texture"
             THEN SetTextureUVScale(SetShaderTexture(t, o.tag, junk), o.uv[1], o.uv[2])
             ELSE SetShaderMaterial(t, o.tag, junk)
    IN  DrawMesh(a, o.mesh)

RECURSIVE DrawObjectsFrom(_, _, _)
DrawObjectsFrom(s, i, junk) ==
    IF s.ub = "none" /\ i <= Len(SceneObjects)
    THEN DrawObjectsFrom(DrawObject(s, SceneObjects[i], junk), i + 1, junk)
    ELSE s

\* loads the floor texture again in every frame
RenderScene_reload(s, junk) ==
    DrawObjectsFrom(
        SetTransformations(
            BindGLTextures(UseShader(GLCall(
                CreateGLTexture(s, SceneTextures[1].file, SceneTextures[1].tag, "oob_crash"),
                "glClear", <<>>))),
            FirstTransform),
        1, junk)

RenderScene(s, junk) ==
    DrawObjectsFrom(
        SetTransformations(BindGLTextures(UseShader(GLCall(s, "glClear", <<>>))),
                           FirstTransform),
        1, junk)

----------------------------------------------------------------------------
(* ViewManager *)

\* WINDOW_WIDTH / 2.0f and WINDOW_HEIGHT / 2.0f.  A cursor coordinate is an
\* integer number of hundreds of pixels.  A double holds every coordinate of
\* the model exactly; a float has a three-bit significand, so it holds 0 .. 7
\* exactly and above that only every second, fourth, ... integer.
InitialLastX == 5

InitialLastY == 4

RECURSIVE RoundToStep(_, _)
RoundToStep(m, step) ==
    IF m < 8 * step
    THEN LET q == m \div step
             r == m % step
         IN  IF 2 * r < step THEN q * step
             ELSE IF 2 * r > step THEN (q + 1) * step
             ELSE IF q % 2 = 0 THEN q * step ELSE (q + 1) * step
    ELSE RoundToStep(m, 2 * step)

\* double -> float: round to the nearest float, ties to even
ToFloat(x) == IF x >= 0 THEN RoundToStep(x, 1) ELSE 0 - RoundToStep(0 - x, 1)

\* the keys ProcessKeyboardEvents polls
Keys == {"ESCAPE", "W", "S", "A", "D", "Q", "E", "P", "O"}

\* the camera movements of one poll, in the order the keys are tested
MoveKeys == << [key |-> "W", move |-> "FORWARD"], [key |-> "S", move |-> "BACKWARD"],
               [key |-> "A", move |-> "LEFT"],    [key |-> "D", move |-> "RIGHT"],
               [key |-> "Q", move |-> "UP"],      [key |-> "E", move |-> "DOWN"] >>

RECURSIVE MovesFrom(_, _)
MovesFrom(pressed, i) ==
    IF i <= Len(MoveKeys)
    THEN (IF MoveKeys[i].key \in pressed THEN <<MoveKeys[i].move>> ELSE <<>>)
         \o MovesFrom(pressed, i + 1)
    ELSE <<>>

\* the flag survives an O pressed together with P
ProjectionAfterKeys_PWins(flag, pressed) ==
    LET afterO == IF "O" \in pressed THEN TRUE ELSE flag
    IN  IF "P" \in pressed THEN FALSE ELSE afterO

\* bOrthographicProjection after the P test and then the O test
ProjectionAfterKeys(flag, pressed) ==
    LET afterP == IF "P" \in pressed THEN FALSE ELSE flag
    IN  IF "O" \in pressed THEN TRUE ELSE afterP

\* the view state after ProcessKeyboardEvents with the given keys down
ProcessKeyboardEvents(v, pressed) ==
    [v EXCEPT !.shouldClose = IF "ESCAPE" \in pressed THEN TRUE ELSE @,
              !.camera.moves = MovesFrom(pressed, 1),
              !.ortho = ProjectionAfterKeys(@, pressed),
              !.log = Append(@, [kind |-> "poll", name |-> "ProcessKeyboardEvents",
                                 value |-> pressed])]

\* glm::ortho(...) or glm::perspective(...), kept as its kind
Projection(v) ==
    IF v.ortho THEN [kind |-> "orthographic", size |-> 10000, near |-> 100, far |-> 100000]
    ELSE [kind |-> "perspective", fov |-> "Zoom", near |-> 100, far |-> 100000]

ViewUpload(v, name, value) ==
    [v EXCEPT !.shader = (name :> value) @@ @,
              !.log = Append(@, [kind |-> "upload", name |-> name, value |-> value])]

\* uploads the projection before it polls the keyboard
PrepareSceneView_stale(v, pressed) ==
    LET c == [v EXCEPT !.log = @ \o <<
                 [kind |-> "compute", name |-> "view", value |-> v.camera],
                 [kind |-> "compute", name |-> "projection", value |-> Projection(v)] >>]
        u == IF c.mgr # "null"
             THEN ViewUpload(ViewUpload(ViewUpload(c,
                      "view", [of |-> c.camera]),
                      "projection", Projection(c)),
                      "viewPosition", [of |-> c.camera])
             ELSE c
    IN  ProcessKeyboardEvents(u, pressed)

PrepareSceneView(v, pressed) ==
    LET t == [v EXCEPT !.log = Append(@, [kind |-> "time", name |-> "glfwGetTime",
                                          value |-> <<>>])]
        k == ProcessKeyboardEvents(t, pressed)
        c == [k EXCEPT !.log = @ \o <<
                 [kind |-> "compute", name |-> "view", value |-> k.camera],
                 [kind |-> "compute", name |-> "projection", value |-> Projection(k)] >>]
    IN  IF c.mgr # "null"
        THEN ViewUpload(ViewUpload(ViewUpload(c,
                 "view", [of |-> c.camera]),
                 "projection", Projection(c)),
                 "viewPosition", [of |-> c.camera])
        ELSE c

\* the vertical offset is not reversed
Mouse_Position_Callback_upward(v, xMousePos, yMousePos) ==
    LET f == IF v.firstMouse
             THEN [v EXCEPT !.lastX = ToFloat(xMousePos), !.lastY = ToFloat(yMousePos),
                            !.firstMouse = FALSE]
             ELSE v
        xOffset == ToFloat(xMousePos - f.lastX)
        yOffset == ToFloat(yMousePos - f.lastY)
    IN  [f EXCEPT !.lastX = ToFloat(xMousePos), !.lastY = ToFloat(yMousePos),
                  !.camera.mouse = <<xOffset, yOffset>>,
                  !.log = Append(@, [kind |-> "camera", name |-> "ProcessMouseMovement",
                                     value |-> <<xOffset, yOffset>>])]

\* the view state after a cursor event at (xMousePos, yMousePos)
Mouse_Position_Callback(v, xMousePos, yMousePos) ==
    LET f == IF v.firstMouse
             THEN [v EXCEPT !.lastX = ToFloat(xMousePos), !.lastY = ToFloat(yMousePos),
                            !.firstMouse = FALSE]
             ELSE v
        xOffset == ToFloat(xMousePos - f.lastX)
        yOffset == ToFloat(f.lastY - yMousePos)
    IN  [f EXCEPT !.lastX = ToFloat(xMousePos), !.lastY = ToFloat(yMousePos),
                  !.camera.mouse = <<xOffset, yOffset>>,
                  !.log = Append(@, [kind |-> "camera", name |-> "ProcessMouseMovement",
                                     value |-> <<xOffset, yOffset>>])]

Mouse_Scroll_Callback(v, yoffset) ==
    [v EXCEPT !.camera.scroll = <<yoffset>>,
              !.log = Append(@, [kind |-> "camera", name |-> "ProcessMouseScroll",
                                 value |-> yoffset])]

----------------------------------------------------------------------------
(* Inputs of the operations *)

\* the (file, tag) pairs CreateGLTexture is called with on its own
CreateInputs == {SceneTextures[1], SceneTextures[4], SceneTextures[5]}

\* the tags the table is searched for: registered ones and one that never is
QueryTags == {"floorTile", "clay", "marble"}

\* the tags materials are looked up by: a defined one and one that never is
MaterialTags == {"wineBottle", "glass"}

\* keys held down during one poll
MaxKeysDown == 2

KeySets == {k \in SUBSET Keys : Cardinality(k) <= MaxKeysDown}

\* cursor coordinates; 9 is not a float of the model
MouseCoords == {0, 3, 9}

----------------------------------------------------------------------------
(* The initial state *)

\* m_textureIDs and m_loadedTextures before the first CreateGLTexture: an
\* empty table (the members are declared in SceneManager.h)
InitialTextures == [i \in Slots |-> [ID |-> 0, tag |-> ""]]

InitialLoadedTextures == 0

SceneInit ==
    /\ m_loadedTextures = InitialLoadedTextures
    /\ m_textureIDs = InitialTextures
    /\ m_objectMaterials = <<>>
    /\ meshLoads = [m \in MeshKinds |-> 0]
    /\ glTextures = {}
    /\ createdByLoad = {}
    /\ textureUnits = [i \in Slots |-> 0]
    /\ shader = <<>>
    /\ glLog = <<>>

ViewInit ==
    /\ m_pWindow = "null"
    /\ windowShouldClose = FALSE
    /\ bOrthographicProjection = FALSE
    /\ gFirstMouse = TRUE
    /\ gLastX = InitialLastX
    /\ gLastY = InitialLastY
    /\ camera = [moves |-> <<>>, mouse |-> <<>>, scroll |-> <<>>]
    /\ viewShader = <<>>
    /\ viewLog = <<>>

ProgramInit ==
    /\ lastCall = [op |-> "constructor", args |-> <<>>, after |-> "none"]
    /\ ret = "void"
    /\ ub = "none"
    /\ nCalls = 0

Init ==
    /\ SceneInit /\ ViewInit /\ ProgramInit
    /\ m_pShaderManager \in {"null", "valid"}
    /\ disk \in Disks
    /\ v_pShaderManager = "valid"

InitView ==
    /\ SceneInit /\ ViewInit /\ ProgramInit
    /\ m_pShaderManager = "valid"
    /\ disk = AllImages
    /\ v_pShaderManager \in {"null", "valid"}

----------------------------------------------------------------------------
(* The operations of the scene manager *)

Running == ub = "none" /\ nCalls < MaxCalls

\* the state a method leaves behind becomes the current state
Commit(s, op, args) ==
    /\ m_loadedTextures' = s.loaded
    /\ m_textureIDs' = s.textures
    /\ m_objectMaterials' = s.materials
    /\ meshLoads' = s.meshes
    /\ glTextures' = s.gl
    /\ createdByLoad' = s.created
    /\ textureUnits' = s.units
    /\ shader' = s.shader
    /\ glLog' = s.log
    /\ ret' = s.ret
    /\ ub' = s.ub
    /\ lastCall' = [op |-> op, args |-> args, after |-> lastCall.op]
    /\ nCalls' = nCalls + 1
    /\ UNCHANGED <<m_pShaderManager, disk>>
    /\ UNCHANGED viewVars

CallCreateGLTexture ==
    /\ Running
    /\ \E in \in CreateInputs, oob \in OutOfBounds :
          Commit(CreateGLTexture(Cur, in.file, in.tag, oob),
                 "CreateGLTexture", <<in.file, in.tag>>)

CallBindGLTextures ==
    /\ Running
    /\ Commit(BindGLTextures(Cur), "BindGLTextures", <<>>)

CallDestroyGLTextures ==
    /\ Running
    /\ Commit(DestroyGLTextures(Cur), "DestroyGLTextures", <<>>)

CallFindTextureID ==
    /\ Running
    /\ \E tag \in QueryTags :
          Commit([Cur EXCEPT !.ret = FindTextureID(Cur, tag)], "FindTextureID", <<tag>>)

CallFindTextureSlot ==
    /\ Running
    /\ \E tag \in QueryTags :
          Commit([Cur EXCEPT !.ret = FindTextureSlot(Cur, tag)], "FindTextureSlot", <<tag>>)

CallFindMaterial ==
    /\ Running
    /\ \E tag \in MaterialTags, junk \in StackJunk :
          Commit([Cur EXCEPT !.ret = FindMaterial(Cur.materials, tag, junk)],
                 "FindMaterial", <<tag, junk>>)

CallSetTransformations ==
    /\ Running
    /\ Commit(SetTransformations(Cur, FirstTransform), "SetTransformations", <<FirstTransform>>)

CallSetShaderColor ==
    /\ Running
    /\ Commit(SetShaderColor(Cur, <<1000, 0, 0, 1000>>), "SetShaderColor", <<1000, 0, 0, 1000>>)

CallSetShaderTexture ==
    /\ Running
    /\ \E tag \in QueryTags, junk \in StackJunk :
          Commit(SetShaderTexture(Cur, tag, junk), "SetShaderTexture", <<tag, junk>>)

CallSetTextureUVScale ==
    /\ Running
    /\ Commit(SetTextureUVScale(Cur, 4000, 4000), "SetTextureUVScale", <<4000, 4000>>)

CallSetShaderMaterial ==
    /\ Running
    /\ \E tag \in MaterialTags, junk \in StackJunk :
          Commit(SetShaderMaterial(Cur, tag, junk), "SetShaderMaterial", <<tag, junk>>)

CallDefineObjectMaterials ==
    /\ Running
    /\ Commit(DefineObjectMaterials(Cur), "DefineObjectMaterials", <<>>)

CallSetupSceneLights ==
    /\ Running
    /\ Commit(SetupSceneLights(Cur), "SetupSceneLights", <<>>)

CallPrepareScene ==
    /\ Running
    /\ \E oob \in OutOfBounds :
          Commit(PrepareScene(Cur, oob), "PrepareScene", <<>>)

CallRenderScene ==
    /\ Running
    /\ \E junk \in StackJunk :
          Commit(RenderScene(Cur, junk), "RenderScene", <<junk>>)

Next ==
    \/ CallCreateGLTexture
    \/ CallBindGLTextures
    \/ CallDestroyGLTextures
    \/ CallFindTextureID
    \/ CallFindTextureSlot
    \/ CallFindMaterial
    \/ CallSetTransformations
    \/ CallSetShaderColor
    \/ CallSetShaderTexture
    \/ CallSetTextureUVScale
    \/ CallSetShaderMaterial
    \/ CallDefineObjectMaterials
    \/ CallSetupSceneLights
    \/ CallPrepareScene
    \/ CallRenderScene

Spec == Init /\ [][Next]_vars

----------------------------------------------------------------------------
(* The operations of the view manager *)

CurView == [mgr |-> v_pShaderManager, shouldClose |-> windowShouldClose,
            ortho |-> bOrthographicProjection, firstMouse |-> gFirstMouse,
            lastX |-> gLastX, lastY |-> gLastY, camera |-> camera,
            shader |-> viewShader, log |-> <<>>]

CommitView(v, op, args) ==
    /\ windowShouldClose' = v.shouldClose
    /\ bOrthographicProjection' = v.ortho
    /\ gFirstMouse' = v.firstMouse
    /\ gLastX' = v.lastX
    /\ gLastY' = v.lastY
    /\ camera' = v.camera
    /\ viewShader' = v.shader
    /\ viewLog' = v.log
    /\ lastCall' = [op |-> op, args |-> args, after |-> lastCall.op]
    /\ ret' = "void"
    /\ nCalls' = nCalls + 1
    /\ UNCHANGED <<v_pShaderManager, m_pWindow, ub>>
    /\ UNCHANGED sceneVars

\* glfwGetKey(m_pWindow, ...) on a window that was never created
NullWindow(op, args) ==
    /\ ub' = "null_window"
    /\ lastCall' = [op |-> op, args |-> args, after |-> lastCall.op]
    /\ ret' = "void"
    /\ nCalls' = nCalls + 1
    /\ viewLog' = <<>>
    /\ UNCHANGED <<v_pShaderManager, m_pWindow, windowShouldClose, bOrthographicProjection,
                   gFirstMouse, gLastX, gLastY, camera, viewShader>>
    /\ UNCHANGED sceneVars

CreateDisplayWindow ==
    /\ Running
    /\ \E created \in BOOLEAN :
          /\ m_pWindow' = IF created THEN "window" ELSE m_pWindow
          /\ ret' = IF created THEN "window" ELSE "null"
          /\ lastCall' = [op |-> "CreateDisplayWindow", args |-> <<created>>,
                          after |-> lastCall.op]
          /\ nCalls' = nCalls + 1
          /\ viewLog' = <<>>
          /\ UNCHANGED <<v_pShaderManager, windowShouldClose, bOrthographicProjection,
                         gFirstMouse, gLastX, gLastY, camera, viewShader, ub>>
          /\ UNCHANGED sceneVars

CallPrepareSceneView ==
    /\ Running
    /\ \E pressed \in KeySets :
          IF m_pWindow = "null"
          THEN NullWindow("PrepareSceneView", <<pressed>>)
          ELSE CommitView(PrepareSceneView(CurView, pressed),
                          "PrepareSceneView", <<pressed>>)

\* GLFW calls the cursor callback of a window that exists
CursorEvent ==
    /\ Running
    /\ m_pWindow = "window"
    /\ \E x \in MouseCoords, y \in MouseCoords :
          CommitView(Mouse_Position_Callback(CurView, x, y),
                     "Mouse_Position_Callback", <<x, y>>)

ScrollEvent ==
    /\ Running
    /\ m_pWindow = "window"
    /\ \E yoffset \in {-1, 1} :
          CommitView(Mouse_Scroll_Callback(CurView, yoffset),
                     "Mouse_Scroll_Callback", <<yoffset>>)

NextView ==
    \/ CreateDisplayWindow
    \/ CallPrepareSceneView
    \/ CursorEvent
    \/ ScrollEvent

SpecView == InitView /\ [][NextView]_vars

----------------------------------------------------------------------------
(* The texture table: C1 - C4, C10 *)

\* the slots in use whose tag is the given one
SlotsTagged(tag) == {i \in Slots : i < m_loadedTextures /\ m_textureIDs[i].tag = tag}

\* the smallest of them, -1 when there is none
FirstSlotTagged(tag) ==
    IF SlotsTagged(tag) = {} THEN -1
    ELSE CHOOSE i \in SlotsTagged(tag) : \A j \in SlotsTagged(tag) : i <= j

AllTags == SceneTags \cup QueryTags

\* C1: FindTextureSlot(tag) is the smallest index below m_loadedTextures whose
\* tag is the given one, and -1 when no registered texture has the tag (an
\* empty table included); a call leaves the table and the count as they were.
C1_FindTextureSlotFirstMatch ==
    /\ [](ub = "none" =>
            \A tag \in AllTags : FindTextureSlot(Cur, tag) = FirstSlotTagged(tag))
    /\ [][lastCall'.op = "FindTextureSlot" =>
            /\ ret' = FirstSlotTagged(lastCall'.args[1])
            /\ m_textureIDs' = m_textureIDs
            /\ m_loadedTextures' = m_loadedTextures]_vars

\* a search that found the first of two slots registered under the same tag
C1_Witness ==
    /\ lastCall.op = "FindTextureSlot"
    /\ ret = 0
    /\ Cardinality(SlotsTagged(lastCall.args[1])) >= 2

\* a search of a table in use that found nothing
C1_WitnessMiss ==
    /\ lastCall.op = "FindTextureSlot"
    /\ ret = -1
    /\ m_loadedTextures > 0

\* C2: a CreateGLTexture call whose image has 3 or 4 channels returns true,
\* stores the new handle and the tag in the slot whose index is the count
\* before the call, raises the count by one and leaves every other slot alone.
C2_LoadRegistersInNextSlot ==
    [][(lastCall'.op = "CreateGLTexture" /\ StbiLoad(disk, lastCall'.args[1]) \in {3, 4}) =>
          /\ ub' = "none"
          /\ ret' = TRUE
          /\ m_loadedTextures \in Slots
          /\ m_loadedTextures' = m_loadedTextures + 1
          /\ \E id \in glTextures' \ glTextures :
                m_textureIDs' = [m_textureIDs EXCEPT ![m_loadedTextures] =
                                    [ID |-> id, tag |-> lastCall'.args[2]]]]_vars

\* C3: a CreateGLTexture call whose image cannot be loaded, or has a channel
\* count other than 3 or 4, returns false and leaves the table and the count
\* as they were.
C3_FailedLoadLeavesTable ==
    [][(lastCall'.op = "CreateGLTexture" /\ StbiLoad(disk, lastCall'.args[1]) \notin {3, 4}) =>
          /\ ub' = "none"
          /\ ret' = FALSE
          /\ m_textureIDs' = m_textureIDs
          /\ m_loadedTextures' = m_loadedTextures]_vars

\* a two-channel image was refused while the table held a texture
C3_Witness ==
    /\ lastCall.op = "CreateGLTexture"
    /\ StbiLoad(disk, lastCall.args[1]) = 2
    /\ ret = FALSE
    /\ m_loadedTextures > 0

\* C4: the number of registered textures never exceeds the 16 slots of the
\* table and no call writes to a slot index of 16 or more.
C4_TableNeverOverflows ==
    /\ m_loadedTextures <= TableSize
    /\ ub \notin OutOfBounds

\* C10: when DestroyGLTextures has returned, no texture name generated by an
\* earlier CreateGLTexture is still allocated, and no name is allocated that
\* CreateGLTexture did not generate (DestroyGLTextures allocated none).
C10_DestroyFreesTextures ==
    lastCall.op = "DestroyGLTextures" =>
        /\ glTextures \cap createdByLoad = {}
        /\ glTextures \subseteq createdByLoad

----------------------------------------------------------------------------
(* The calls of a frame: C5 - C7 *)

\* the positions of the mesh draws in glLog
Draws == {i \in 1 .. Len(glLog) : glLog[i].kind = "draw"}

IsAppearance(e) ==
    e.kind = "call" /\ e.name \in {"SetShaderTexture", "SetShaderMaterial", "SetShaderColor"}

\* the position of the last appearance call before position i, 0 when none
LastAppearanceBefore(i) ==
    LET before == {j \in 1 .. (i - 1) : IsAppearance(glLog[j])}
    IN  IF before = {} THEN 0 ELSE CHOOSE j \in before : \A k \in before : k <= j

\* the position of the last draw before position i, 0 when none
PrevDraw(i) ==
    LET before == {j \in Draws : j < i}
    IN  IF before = {} THEN 0 ELSE CHOOSE j \in before : \A k \in before : k <= j

\* the first defined material with the tag
MaterialsTagged(tag) == {k \in 1 .. Len(m_objectMaterials) : m_objectMaterials[k].tag = tag}

MaterialNamed(tag) ==
    m_objectMaterials[CHOOSE k \in MaterialsTagged(tag) : \A l \in MaterialsTagged(tag) : k <= l]

\* the material.* uniforms of a snapshot are the fields of the material
ShowsMaterial(u, m) ==
    /\ u["material.ambientColor"] = m.ambientColor
    /\ u["material.ambientStrength"] = m.ambientStrength
    /\ u["material.diffuseColor"] = m.diffuseColor
    /\ u["material.specularColor"] = m.specularColor
    /\ u["material.shininess"] = m.shininess

\* C5: at every draw of RenderScene, bUseTexture is 1 exactly when the last
\* appearance call before the draw was SetShaderTexture and 0 when it was
\* SetShaderMaterial or SetShaderColor; after SetShaderMaterial the material.*
\* uniforms are the fields of the material the tag names.
C5_MaterialInPlaceOfTexture ==
    lastCall.op = "RenderScene" =>
        \A i \in Draws :
            LET j == LastAppearanceBefore(i)
                u == glLog[i].value
            IN  /\ j > 0
                /\ (u["bUseTexture"] = 1) <=> (glLog[j].name = "SetShaderTexture")
                /\ glLog[j].name # "SetShaderTexture" => u["bUseTexture"] = 0
                /\ (glLog[j].name = "SetShaderMaterial" /\ MaterialsTagged(glLog[j].value) # {})
                      => ShowsMaterial(u, MaterialNamed(glLog[j].value))

\* a frame that drew a textured shape and a shape with a defined material
C5_Witness ==
    /\ lastCall.op = "RenderScene"
    /\ \E i \in Draws : glLog[LastAppearanceBefore(i)].name = "SetShaderTexture"
    /\ \E i \in Draws :
          /\ glLog[LastAppearanceBefore(i)].name = "SetShaderMaterial"
          /\ MaterialsTagged(glLog[LastAppearanceBefore(i)].value) # {}

\* the names of the scene manager's methods entered between positions a and b
IsCall(e) == e.kind = "call"

CallsBetween(a, b) ==
    LET calls == SelectSeq(SubSeq(glLog, a + 1, b - 1), IsCall)
    IN  [k \in 1 .. Len(calls) |-> calls[k].name]

TexturedShape == <<"SetTransformations", "SetShaderTexture", "SetTextureUVScale">>

MaterialShape == <<"SetTransformations", "SetShaderMaterial">>

\* C6 as stated: between the previous draw (or the start of the frame) and each
\* draw there is exactly one SetTransformations call, then exactly one
\* appearance call (SetShaderTexture then SetTextureUVScale, or
\* SetShaderMaterial), then the draw.
C6_OneTransformPerDraw ==
    lastCall.op = "RenderScene" =>
        \A i \in Draws : CallsBetween(PrevDraw(i), i) \in {TexturedShape, MaterialShape}

\* C6 as amended: the same, but the first draw of the frame is preceded by two
\* SetTransformations calls with the same arguments.
C6_TransformThenAppearanceThenDraw ==
    lastCall.op = "RenderScene" =>
        \A i \in Draws :
            IF PrevDraw(i) = 0
            THEN /\ CallsBetween(0, i) \in {<<"SetTransformations">> \o TexturedShape,
                                            <<"SetTransformations">> \o MaterialShape}
                 /\ LET calls == SelectSeq(SubSeq(glLog, 1, i - 1), IsCall)
                    IN  calls[1].value = calls[2].value
            ELSE CallsBetween(PrevDraw(i), i) \in {TexturedShape, MaterialShape}

\* a frame that drew every shape of the scene
C6_Witness ==
    /\ lastCall.op = "RenderScene"
    /\ Cardinality(Draws) = Len(SceneObjects)

\* the uploads and draws of a log, a draw without the uniforms it saw
IsIssued(e) == e.kind \in {"upload", "draw"}

Issued(log) ==
    LET es == SelectSeq(log, IsIssued)
    IN  [k \in 1 .. Len(es) |->
            IF es[k].kind = "draw"
            THEN [kind |-> "draw", via |-> es[k].via, name |-> es[k].name, value |-> <<>>]
            ELSE es[k]]

\* C7: RenderScene leaves the texture table, the count and the material list
\* as they were, and once PrepareScene has run, a RenderScene call that follows
\* a RenderScene call issues the same uploads and draws as that one.
C7_RenderSceneReplays ==
    [][lastCall'.op = "RenderScene" =>
          /\ m_textureIDs' = m_textureIDs
          /\ m_loadedTextures' = m_loadedTextures
          /\ m_objectMaterials' = m_objectMaterials
          /\ (lastCall.op = "RenderScene" /\ meshLoads["Plane"] >= 1)
                => Issued(glLog') = Issued(glLog)]_vars

\* the second of two frames rendered after one PrepareScene
C7_Witness ==
    /\ lastCall.op = "RenderScene"
    /\ lastCall.after = "RenderScene"
    /\ meshLoads["Plane"] = 1
    /\ Cardinality(Draws) = Len(SceneObjects)

----------------------------------------------------------------------------
(* The view: C8, C9 *)

\* C8: the projection flag starts as perspective; a frame's key processing
\* makes it true when O is down, otherwise false when P is down, otherwise
\* leaves it; nothing else (another key, a mouse callback) changes it.
C8_ProjectionToggle ==
    /\ bOrthographicProjection = FALSE
    /\ [][IF lastCall'.op = "PrepareSceneView" /\ ub' = "none"
          THEN bOrthographicProjection' =
                  (IF "O" \in lastCall'.args[1] THEN TRUE
                   ELSE IF "P" \in lastCall'.args[1] THEN FALSE
                   ELSE bOrthographicProjection)
          ELSE bOrthographicProjection' = bOrthographicProjection]_vars

\* a frame with P and O both down left the flag orthographic
C8_Witness ==
    /\ lastCall.op = "PrepareSceneView"
    /\ ub = "none"
    /\ {"P", "O"} \subseteq lastCall.args[1]
    /\ bOrthographicProjection = TRUE

\* the positions of the entries of a kind (and name) in viewLog
ViewSteps(kind) == {i \in 1 .. Len(viewLog) : viewLog[i].kind = kind}

ViewUploads(name) == {i \in ViewSteps("upload") : viewLog[i].name = name}

\* C9: in a PrepareSceneView call the keyboard is polled before the matrices
\* are computed and the matrices are computed before anything is uploaded; the
\* projection uploaded is orthographic exactly when the flag is true after the
\* call's key processing; view, projection and viewPosition are uploaded once
\* each with a shader manager and not at all without one.
C9_PollComputeUpload ==
    (lastCall.op = "PrepareSceneView" /\ ub = "none") =>
        /\ Cardinality(ViewSteps("poll")) = 1
        /\ \A c \in ViewSteps("compute") : \A k \in ViewSteps("poll") : k < c
        /\ {viewLog[c].name : c \in ViewSteps("compute")} = {"view", "projection"}
        /\ \A u \in ViewSteps("upload") : \A c \in ViewSteps("compute") : c < u
        /\ v_pShaderManager = "null" => ViewSteps("upload") = {}
        /\ v_pShaderManager # "null" =>
              /\ \A name \in {"view", "projection", "viewPosition"} :
                    Cardinality(ViewUploads(name)) = 1
              /\ \A u \in ViewSteps("upload") :
                    viewLog[u].name \in {"view", "projection", "viewPosition"}
              /\ \A u \in ViewUploads("projection") :
                    /\ (viewLog[u].value.kind = "orthographic") <=> bOrthographicProjection
                    /\ \E c \in ViewSteps("compute") :
                          /\ viewLog[c].name = "projection"
                          /\ viewLog[c].value = viewLog[u].value

\* the first frame, with O down, uploaded an orthographic projection
C9_Witness ==
    /\ lastCall.op = "PrepareSceneView"
    /\ lastCall.after = "CreateDisplayWindow"
    /\ ub = "none"
    /\ "O" \in lastCall.args[1]
    /\ \E u \in ViewUploads("projection") : viewLog[u].value.kind = "orthographic"

\* a frame without a shader manager uploaded nothing
C9_WitnessNull ==
    /\ lastCall.op = "PrepareSceneView"
    /\ ub = "none"
    /\ v_pShaderManager = "null"
    /\ ViewSteps("upload") = {}

----------------------------------------------------------------------------
(* The two lookups of the texture table: C11 *)

\* C11: FindTextureID(tag) is the handle stored in the first slot whose tag is
\* the given one and -1 when no slot has the tag; for every tag and table it
\* is -1 exactly when FindTextureSlot(tag) is -1, and otherwise the handle
\* stored at index FindTextureSlot(tag).
C11_FindTextureIDAgreesWithSlot ==
    /\ [](ub = "none" =>
            \A tag \in AllTags :
                LET slot == FindTextureSlot(Cur, tag)
                    id   == FindTextureID(Cur, tag)
                IN  /\ (id = -1) <=> (slot = -1)
                    /\ slot # -1 => id = m_textureIDs[slot].ID
                    /\ slot = FirstSlotTagged(tag))
    /\ [][lastCall'.op = "FindTextureID" =>
            /\ ret' = (IF FirstSlotTagged(lastCall'.args[1]) = -1 THEN -1
                       ELSE m_textureIDs[FirstSlotTagged(lastCall'.args[1])].ID)
            /\ m_textureIDs' = m_textureIDs
            /\ m_loadedTextures' = m_loadedTextures]_vars

\* a search that returned the handle of the first of two slots registered
\* under the same tag with different handles
C11_Witness ==
    /\ lastCall.op = "FindTextureID"
    /\ ub = "none"
    /\ Cardinality(SlotsTagged(lastCall.args[1])) >= 2
    /\ ret = m_textureIDs[0].ID
    /\ \E i \in SlotsTagged(lastCall.args[1]) : m_textureIDs[i].ID # ret

\* a search of a table in use that found no slot
C11_WitnessMiss ==
    /\ lastCall.op = "FindTextureID"
    /\ ret = -1
    /\ m_loadedTextures > 0

----------------------------------------------------------------------------
(* The tags of the scene: C12 *)

\* the tags a method of the given name was entered with during the last call
TagsPassedTo(name) ==
    {glLog[i].value : i \in {j \in 1 .. Len(glLog) :
                                glLog[j].kind = "call" /\ glLog[j].name = name}}

\* the sampler values uploaded during the last call
SamplersUploaded ==
    {glLog[i].value : i \in {j \in 1 .. Len(glLog) :
                                glLog[j].kind = "upload" /\ glLog[j].name = "objectTexture"}}

\* PrepareScene ran once, every image loaded, and then a frame was rendered
FirstFrameOfFullScene ==
    /\ lastCall.op = "RenderScene"
    /\ lastCall.after = "PrepareScene"
    /\ nCalls = 2
    /\ disk = AllImages
    /\ ub = "none"

\* C12: in a frame rendered after one PrepareScene whose images all loaded,
\* every tag passed to SetShaderTexture resolves to a slot in 0 .. 14 (no
\* sampler of -1 is uploaded), the registered tags are pairwise distinct, and
\* every tag passed to SetShaderMaterial, and the tag "default", names a
\* defined material.
C12_SceneTagsResolve ==
    FirstFrameOfFullScene =>
        /\ m_loadedTextures = Len(SceneTextures)
        /\ \A tag \in TagsPassedTo("SetShaderTexture") :
              FindTextureSlot(Cur, tag) \in 0 .. 14
        /\ SamplersUploaded \subseteq 0 .. 14
        /\ \A a \in Slots, b \in Slots :
              (a < b /\ b < m_loadedTextures) => m_textureIDs[a].tag # m_textureIDs[b].tag
        /\ \A tag \in TagsPassedTo("SetShaderMaterial") \cup {"default"} :
              /\ MaterialsTagged(tag) # {}
              /\ \E k \in 1 .. Len(SceneMaterials) : SceneMaterials[k].tag = tag

\* such a frame, with its textured shapes and its material shapes
C12_Witness ==
    /\ FirstFrameOfFullScene
    /\ Cardinality(TagsPassedTo("SetShaderTexture")) = Len(SceneTextures)
    /\ Cardinality(TagsPassedTo("SetShaderMaterial")) = 4
    /\ Cardinality(Draws) = Len(SceneObjects)

----------------------------------------------------------------------------
(* Texture units: C13 *)

\* the positions in glLog at which a sampler was uploaded
SamplerUploads ==
    {i \in 1 .. Len(glLog) : glLog[i].kind = "upload" /\ glLog[i].name = "objectTexture"}

\* the last call bound the textures and then uploaded samplers: a frame, or
\* a SetShaderTexture call that directly followed a BindGLTextures call
SamplersAfterBinding ==
    /\ ub = "none"
    /\ \/ lastCall.op = "RenderScene"
       \/ lastCall.op = "SetShaderTexture" /\ lastCall.after = "BindGLTextures"

\* C13: BindGLTextures binds the texture stored at index i to unit i for
\* every i below the count and leaves every other unit and the table alone;
\* so after the binding, the sampler SetShaderTexture(tag) uploads for a
\* registered tag is the unit on which the texture registered under the tag
\* (the one FindTextureID returns) is bound.
C13_SamplerIsBoundUnit ==
    /\ [][lastCall'.op = "BindGLTextures" =>
            /\ textureUnits' = [i \in Slots |-> IF i < m_loadedTextures
                                                 THEN m_textureIDs[i].ID
                                                 ELSE textureUnits[i]]
            /\ m_textureIDs' = m_textureIDs
            /\ m_loadedTextures' = m_loadedTextures]_vars
    /\ [](SamplersAfterBinding =>
            /\ \A i \in SamplerUploads :
                  LET tag  == glLog[LastAppearanceBefore(i)].value
                      unit == glLog[i].value
                  IN  /\ glLog[LastAppearanceBefore(i)].name = "SetShaderTexture"
                      /\ unit = FirstSlotTagged(tag)
                      /\ unit # -1 =>
                            /\ m_textureIDs[unit].tag = tag
                            /\ textureUnits[unit] = FindTextureID(Cur, tag)
            /\ lastCall.op = "RenderScene" =>
                  \A tag \in AllTags :
                      FirstSlotTagged(tag) # -1 =>
                          textureUnits[FindTextureSlot(Cur, tag)] = FindTextureID(Cur, tag))

\* a frame whose samplers named units 0 and 1 and more, each holding its texture
C13_Witness ==
    /\ lastCall.op = "RenderScene"
    /\ ub = "none"
    /\ m_loadedTextures >= 3
    /\ {0, 1, 2} \subseteq {glLog[i].value : i \in SamplerUploads}
    /\ \A u \in {0, 1, 2} : textureUnits[u] = m_textureIDs[u].ID /\ textureUnits[u] > 0

\* a SetShaderTexture call right after BindGLTextures, for a registered tag
C13_WitnessCall ==
    /\ lastCall.op = "SetShaderTexture"
    /\ lastCall.after = "BindGLTextures"
    /\ ub = "none"
    /\ \E i \in SamplerUploads : glLog[i].value = 0 /\ textureUnits[0] > 0

----------------------------------------------------------------------------
(* Meshes: C14 *)

\* the meshes the shapes of RenderScene are drawn from
MeshesDrawn == {MeshUsedBy(SceneObjects[i].mesh) : i \in 1 .. Len(SceneObjects)}

\* C14: a PrepareScene call loads every mesh that RenderScene draws from
\* (plane, box, tapered cylinder, cylinder, 4-sided pyramid, and the sphere of
\* the half-sphere) exactly once, and a RenderScene call loads no mesh and no
\* texture; so in a frame rendered after one PrepareScene every draw uses a
\* mesh that was loaded once.
C14_MeshesLoadedOnce ==
    /\ [][lastCall'.op = "PrepareScene" =>
            \A m \in MeshesDrawn : meshLoads'[m] = meshLoads[m] + 1]_vars
    /\ [][lastCall'.op = "RenderScene" =>
            /\ meshLoads' = meshLoads
            /\ glTextures' = glTextures
            /\ createdByLoad' = createdByLoad
            /\ m_textureIDs' = m_textureIDs
            /\ m_loadedTextures' = m_loadedTextures]_vars
    /\ []((lastCall.op = "RenderScene" /\ lastCall.after = "PrepareScene" /\ nCalls = 2) =>
            \A i \in Draws : meshLoads[MeshUsedBy(glLog[i].name)] = 1)

\* a frame after one PrepareScene that drew all six kinds of shape
C14_Witness ==
    /\ lastCall.op = "RenderScene"
    /\ lastCall.after = "PrepareScene"
    /\ nCalls = 2
    /\ ub = "none"
    /\ {glLog[i].name : i \in Draws} =
          {"Plane", "Box", "TaperedCylinder", "Cylinder", "Pyramid4", "HalfSphere"}
    /\ \A m \in MeshesDrawn : meshLoads[m] = 1

----------------------------------------------------------------------------
(* Materials: C15, C16 *)

\* the five fields FindMaterial copies
SameMaterialValues(a, b) ==
    /\ a.ambientColor = b.ambientColor
    /\ a.ambientStrength = b.ambientStrength
    /\ a.diffuseColor = b.diffuseColor
    /\ a.specularColor = b.specularColor
    /\ a.shininess = b.shininess

\* C15: FindMaterial(tag, material) returns true exactly when a defined
\* material has the tag; then the five fields of the output are those of the
\* first such material; otherwise it returns false and the output is as it
\* was passed in.
C15_FindMaterialReportsFound ==
    lastCall.op = "FindMaterial" =>
        LET tag == lastCall.args[1]
            in  == lastCall.args[2]
        IN  /\ ret.ret = (MaterialsTagged(tag) # {})
            /\ MaterialsTagged(tag) # {} =>
                  SameMaterialValues(ret.material, MaterialNamed(tag))
            /\ MaterialsTagged(tag) = {} => ret.material = in

MaterialUniforms == {"material.ambientColor", "material.ambientStrength",
                     "material.diffuseColor", "material.specularColor",
                     "material.shininess"}

\* the uniforms of the given names, as far as they have been uploaded
UniformsNamed(u, names) == [n \in names \cap DOMAIN u |-> u[n]]

\* C16: a SetShaderMaterial call whose tag names no defined material sets
\* bUseTexture to false and bUseLighting to true, uploads no material.*
\* uniform and leaves the five of them as they were.
C16_UnknownMaterialKeepsUniforms ==
    [][(/\ lastCall'.op = "SetShaderMaterial"
        /\ m_pShaderManager # "null"
        /\ MaterialsTagged(lastCall'.args[1]) = {}) =>
          /\ ub' = "none"
          /\ shader'["bUseTexture"] = 0
          /\ shader'["bUseLighting"] = 1
          /\ \A i \in 1 .. Len(glLog') :
                glLog'[i].kind = "upload" => glLog'[i].name \notin MaterialUniforms
          /\ UniformsNamed(shader', MaterialUniforms) =
                UniformsNamed(shader, MaterialUniforms)]_vars

----------------------------------------------------------------------------
(* The null shader manager: C17 *)

UploadingOperations == {"SetTransformations", "SetShaderColor", "SetShaderTexture",
                        "SetTextureUVScale", "SetShaderMaterial", "SetupSceneLights",
                        "RenderScene"}

\* C17: with a null shader manager, each of the operations that upload shader
\* state uploads nothing and never calls through the null pointer.
C17_NullManagerNeverDereferenced ==
    (m_pShaderManager = "null" /\ lastCall.op \in UploadingOperations) =>
        /\ ub # "null_deref"
        /\ \A i \in 1 .. Len(glLog) : glLog[i].kind # "upload"
        /\ shader = <<>>

----------------------------------------------------------------------------
(* The cursor: C18 *)

\* the first-mouse flag, once false, stays false
FirstMouseStaysFalse == [][gFirstMouse = FALSE => gFirstMouse' = FALSE]_vars

\* C18 as stated: the first cursor event passes the offset (0, 0) to the
\* camera, a later event at (x, y) passes (x - lastX, lastY - y) where
\* (lastX, lastY), the stored last position, is the position of the event
\* before; after an event the stored last position is the event's position and
\* the first-mouse flag is false, and it never becomes true again.
C18_MouseOffsetsExact ==
    /\ [][lastCall'.op = "Mouse_Position_Callback" =>
            LET x == lastCall'.args[1]
                y == lastCall'.args[2]
            IN  /\ camera'.mouse = (IF gFirstMouse THEN <<0, 0>>
                                    ELSE <<x - gLastX, gLastY - y>>)
                /\ gLastX' = x
                /\ gLastY' = y
                /\ gFirstMouse' = FALSE]_vars
    /\ FirstMouseStaysFalse

\* C18 as amended: the stored last position after an event is the event's
\* position rounded to float; the offset passed to the camera is
\* (float(x - lastX), float(lastY - y)), where (lastX, lastY) is for the first
\* event its own rounded position and for a later event the stored position
\* of the event before; the first offset is (0, 0) when the position is a
\* float; the first-mouse flag is false after an event and stays false.
C18_MouseOffsetsRounded ==
    /\ [][lastCall'.op = "Mouse_Position_Callback" =>
            LET x == lastCall'.args[1]
                y == lastCall'.args[2]
                lastX == IF gFirstMouse THEN ToFloat(x) ELSE gLastX
                lastY == IF gFirstMouse THEN ToFloat(y) ELSE gLastY
            IN  /\ camera'.mouse = <<ToFloat(x - lastX), ToFloat(lastY - y)>>
                /\ viewLog' = << [kind |-> "camera", name |-> "ProcessMouseMovement",
                                  value |-> camera'.mouse] >>
                /\ (gFirstMouse /\ ToFloat(x) = x /\ ToFloat(y) = y)
                      => camera'.mouse = <<0, 0>>
                /\ gLastX' = ToFloat(x)
                /\ gLastY' = ToFloat(y)
                /\ gFirstMouse' = FALSE]_vars
    /\ FirstMouseStaysFalse
    /\ [](lastCall.op = "Mouse_Position_Callback" =>
            /\ gLastX = ToFloat(lastCall.args[1])
            /\ gLastY = ToFloat(lastCall.args[2])
            /\ gFirstMouse = FALSE)

\* a second cursor event that moved right and down: the vertical offset is
\* reversed
C18_Witness ==
    /\ lastCall.op = "Mouse_Position_Callback"
    /\ lastCall.after = "Mouse_Position_Callback"
    /\ lastCall.args = <<3, 3>>
    /\ camera.mouse = <<3, -3>>
    /\ gFirstMouse = FALSE

\* a first cursor event at a position that is not a float: the offset is not
\* (0, 0)
C18_WitnessRounded ==
    /\ lastCall.op = "Mouse_Position_Callback"
    /\ lastCall.after = "CreateDisplayWindow"
    /\ lastCall.args[1] = 9
    /\ camera.mouse[1] # 0
    /\ gLastX # 9

====
